---------------------------- MODULE Spec2Model ----------------------------
(***************************************************************************)
(* A model of geojson_corrector.py: the property correction chain          *)
(* (PropertyCorrector), the geometry adapter (GeometryCorrector), the       *)
(* feature and document correctors (GeoJSONCorrector) and the two          *)
(* file-level entry points correct_geojson_file and validate_geojson_file. *)
(*                                                                         *)
(* JSON values are tagged tuples: <<"null">>, <<"str", s>> with s a        *)
(* sequence of one-character strings, <<"int", n>>, <<"float", m, e>> for  *)
(* the number m * 10^e, <<"bool", b>>, <<"list">> for a nested array and   *)
(* <<"map", f>> for an object, f a function from its keys to their values. *)
(***************************************************************************)
EXTENDS Integers, Sequences, FiniteSets, TLC

VARIABLES
    corrections,   \* PropertyCorrector._corrections: the registered rule names, in order
    props_in,      \* the properties value handed to correct_properties
    props_res,     \* what correct_properties returned for props_in
    props_res2,    \* what correct_properties returned for its own first output
    ppc,           \* position of the property-chain scenario
    buffer,        \* file_content handed to an entry point
    pc,            \* position of the entry point being run
    features,      \* _correct_feature_collection: the features sequence being iterated
    idx,           \* _correct_feature_collection: features processed so far
    corrected_features, \* _correct_feature_collection: the output sequence being built
    result,        \* the CorrectionResult
    output,        \* the document the entry point returned
    issues         \* the list validate_geojson_file returned

vars == <<corrections, props_in, props_res, props_res2, ppc,
          buffer, pc, features, idx, corrected_features, result, output, issues>>

propVars == <<corrections, props_in, props_res, props_res2, ppc>>
docVars == <<buffer, pc, features, idx, corrected_features, result, output, issues>>

---------------------------------------------------------------------------
(* Bounds *)

\* longest string enumerated over Alphabet as a property value
MaxStrLen == 2
\* most rules registered after construction
MaxCustom == 1
\* most features in a FeatureCollection
MaxFeatures == 3

---------------------------------------------------------------------------
(* JSON values *)

JNull == <<"null">>
JStr(s) == <<"str", s>>
JInt(n) == <<"int", n>>
JFloat(m, e) == <<"float", m, e>>
JBool(b) == <<"bool", b>>
JList == <<"list">>
JMap(f) == <<"map", f>>
EmptyMap == <<>>

IsStr(v) == v[1] = "str"
IsMap(v) == v[1] = "map"
IsNull(v) == v[1] = "null"

\* dict.get(key): the value under key, None when the key is absent
Get(f, key) == IF key \in DOMAIN f THEN f[key] ELSE JNull

---------------------------------------------------------------------------
(* Strings: str.strip, str.lower, the two regular expressions, int, float *)

Whitespace == {" ", "\t"}
Digits == {"0", "1", "2", "3", "4", "5", "6", "7", "8", "9"}

DigitVal(c) ==
    CASE c = "0" -> 0 [] c = "1" -> 1 [] c = "2" -> 2 [] c = "3" -> 3
      [] c = "4" -> 4 [] c = "5" -> 5 [] c = "6" -> 6 [] c = "7" -> 7
      [] c = "8" -> 8 [] c = "9" -> 9

LowerChar(c) ==
    CASE c = "N" -> "n" [] c = "U" -> "u" [] c = "L" -> "l" [] c = "O" -> "o"
      [] c = "E" -> "e" [] c = "I" -> "i" [] c = "T" -> "t" [] c = "R" -> "r"
      [] c = "F" -> "f" [] c = "A" -> "a" [] c = "S" -> "s" [] c = "X" -> "x"
      [] OTHER -> c

Lower(s) == [i \in 1..Len(s) |-> LowerChar(s[i])]

RECURSIVE LStrip(_)
LStrip(s) == IF Len(s) > 0 /\ s[1] \in Whitespace THEN LStrip(Tail(s)) ELSE s

RECURSIVE RStrip(_)
RStrip(s) ==
    IF Len(s) > 0 /\ s[Len(s)] \in Whitespace
    THEN RStrip(SubSeq(s, 1, Len(s) - 1))
    ELSE s

Strip(s) == RStrip(LStrip(s))

AllDigits(s) == \A i \in 1..Len(s) : s[i] \in Digits

Unsigned(s) == IF Len(s) > 0 /\ s[1] = "-" THEN Tail(s) ELSE s

\* re.match(r'^-?\d+$', s)
MatchInt(s) == Len(Unsigned(s)) >= 1 /\ AllDigits(Unsigned(s))

\* \d*\.?\d+
MatchMantissa(m) ==
    \/ Len(m) >= 1 /\ AllDigits(m)
    \/ \E p \in 1..Len(m) :
          /\ m[p] = "."
          /\ AllDigits(SubSeq(m, 1, p - 1))
          /\ Len(m) > p
          /\ AllDigits(SubSeq(m, p + 1, Len(m)))

\* [+-]?\d+
MatchExponent(x) ==
    LET d == IF Len(x) > 0 /\ x[1] \in {"+", "-"} THEN Tail(x) ELSE x
    IN  Len(d) >= 1 /\ AllDigits(d)

ExpPositions(b) == {i \in 1..Len(b) : b[i] \in {"e", "E"}}

\* \d*\.?\d+(?:[eE][+-]?\d+)? on b, exps being the positions of e and E in b
MatchUnsignedFloat(b, exps) ==
    IF exps = {} THEN MatchMantissa(b)
    ELSE LET e == CHOOSE i \in exps : \A j \in exps : i <= j
         IN  /\ MatchMantissa(SubSeq(b, 1, e - 1))
             /\ MatchExponent(SubSeq(b, e + 1, Len(b)))

\* re.match(r'^-?\d*\.?\d+(?:[eE][+-]?\d+)?$', s)
MatchFloat(s) == MatchUnsignedFloat(Unsigned(s), ExpPositions(Unsigned(s)))

RECURSIVE DigitsValue(_)
DigitsValue(s) ==
    IF Len(s) = 0 THEN 0
    ELSE 10 * DigitsValue(SubSeq(s, 1, Len(s) - 1)) + DigitVal(s[Len(s)])

Signed(s, n) == IF Len(s) > 0 /\ s[1] = "-" THEN 0 - n ELSE n

\* int(s) for a string MatchInt accepts
ParseInt(s) == Signed(s, DigitsValue(Unsigned(s)))

RECURSIVE Normalize(_, _)
Normalize(m, e) ==
    IF m = 0 THEN JFloat(0, 0)
    ELSE IF m % 10 = 0 THEN Normalize(m \div 10, e + 1)
    ELSE JFloat(m, e)

\* the number sign * mantissa * 10^exponent, the mantissa given with its "."
DecimalValue(negative, man, ex) ==
    LET dot == {p \in 1..Len(man) : man[p] = "."}
        frac == IF dot = {} THEN 0 ELSE Len(man) - (CHOOSE p \in dot : TRUE)
        m == DigitsValue(SelectSeq(man, LAMBDA c : c # "."))
        exd == IF Len(ex) > 0 /\ ex[1] \in {"+", "-"} THEN Tail(ex) ELSE ex
    IN  Normalize(IF negative THEN 0 - m ELSE m, Signed(ex, DigitsValue(exd)) - frac)

ParseUnsignedFloat(negative, b, exps) ==
    IF exps = {} THEN DecimalValue(negative, b, <<>>)
    ELSE LET e == CHOOSE i \in exps : \A j \in exps : i <= j
         IN  DecimalValue(negative, SubSeq(b, 1, e - 1), SubSeq(b, e + 1, Len(b)))

\* float(s) for a string MatchFloat accepts: the number it denotes
ParseFloat(s) ==
    ParseUnsignedFloat(Len(s) > 0 /\ s[1] = "-", Unsigned(s), ExpPositions(Unsigned(s)))

---------------------------------------------------------------------------
(* PropertyCorrector: the rules *)

\* the two re.match branches of _fix_numeric_string on the stripped string
NumericOf(value, stripped) ==
    IF MatchInt(stripped) THEN <<JInt(ParseInt(stripped)), TRUE>>
    ELSE IF MatchFloat(stripped) THEN <<ParseFloat(stripped), TRUE>>
    ELSE <<value, FALSE>>

\* a numeric rule that matches the value as given, without strip()
fix_numeric_string_unstripped(key, value) ==
    IF ~IsStr(value) THEN <<value, FALSE>> ELSE NumericOf(value, value[2])

\* _fix_numeric_string
fix_numeric_string(key, value) ==
    IF ~IsStr(value) THEN <<value, FALSE>> ELSE NumericOf(value, Strip(value[2]))

NullWords == {<<"n", "u", "l", "l">>, <<"n", "o", "n", "e">>, <<"n", "i", "l">>, <<>>}

\* _fix_null_string
fix_null_string(key, value) ==
    IF IsStr(value) /\ Lower(Strip(value[2])) \in NullWords
    THEN <<JNull, TRUE>>
    ELSE <<value, FALSE>>

\* _fix_boolean_string
BooleanOf(value, lower) ==
    IF lower = <<"t", "r", "u", "e">> THEN <<JBool(TRUE), TRUE>>
    ELSE IF lower = <<"f", "a", "l", "s", "e">> THEN <<JBool(FALSE), TRUE>>
    ELSE <<value, FALSE>>

fix_boolean_string(key, value) ==
    IF IsStr(value) THEN BooleanOf(value, Lower(Strip(value[2]))) ELSE <<value, FALSE>>

\* _fix_whitespace
StrippedOf(value, stripped) ==
    IF stripped # value[2] THEN <<JStr(stripped), TRUE>> ELSE <<value, FALSE>>

fix_whitespace(key, value) ==
    IF IsStr(value) THEN StrippedOf(value, Strip(value[2])) ELSE <<value, FALSE>>

\* a caller's rule: an explicit null becomes the integer 0
custom_null_to_zero(key, value) ==
    IF IsNull(value) THEN <<JInt(0), TRUE>> ELSE <<value, FALSE>>

\* a caller's rule: an integer grows by one
custom_increment(key, value) ==
    IF value[1] = "int" THEN <<JInt(value[2] + 1), TRUE>> ELSE <<value, FALSE>>

CustomNames == {"null_to_zero", "increment"}

\* a registration order that trims whitespace before the three conversions
DefaultCorrectionsWhitespaceFirst ==
    <<"whitespace", "numeric_string", "null_string", "boolean_string">>

\* _register_default_corrections
DefaultCorrections == <<"numeric_string", "null_string", "boolean_string", "whitespace">>

\* the function registered under a name, called as correction_func(key, value)
correction_func(name, key, value) ==
    CASE name = "numeric_string" -> fix_numeric_string(key, value)
      [] name = "null_string" -> fix_null_string(key, value)
      [] name = "boolean_string" -> fix_boolean_string(key, value)
      [] name = "whitespace" -> fix_whitespace(key, value)
      [] name = "null_to_zero" -> custom_null_to_zero(key, value)
      [] name = "increment" -> custom_increment(key, value)

---------------------------------------------------------------------------
(* PropertyCorrector: registration and correct_properties *)

\* register_correction: self._corrections.append((name, func))
register_correction(corrs, name) == Append(corrs, name)

\* the state of the inner loop of correct_properties for one key
ChainStart(value) == [current_value |-> value, total_fixes |-> 0, applied |-> <<>>]

\* a first-match-wins chain: once a rule has fired for the key, later rules are
\* called but their corrections are dropped
AppliedFirstMatchWins(name, st, r) ==
    [current_value |-> IF r[2] /\ st.total_fixes = 0 THEN r[1] ELSE st.current_value,
     total_fixes |-> st.total_fixes + (IF r[2] /\ st.total_fixes = 0 THEN 1 ELSE 0),
     applied |-> Append(st.applied,
                        [name |-> name, input |-> st.current_value,
                         output |-> r[1], was_corrected |-> r[2]])]

\* one pass of the inner loop body: r is what the rule returned on current_value;
\* when it reports a correction take its value and count one fix. applied records
\* the call.
Applied(name, st, r) ==
    [current_value |-> IF r[2] THEN r[1] ELSE st.current_value,
     total_fixes |-> st.total_fixes + (IF r[2] THEN 1 ELSE 0),
     applied |-> Append(st.applied,
                        [name |-> name, input |-> st.current_value,
                         output |-> r[1], was_corrected |-> r[2]])]

CorrectionStep(name, key, st) == Applied(name, st, correction_func(name, key, st.current_value))

\* for correction_name, correction_func in self._corrections
RECURSIVE RunChain(_, _, _, _)
RunChain(corrs, i, key, st) ==
    IF i > Len(corrs) THEN st
    ELSE RunChain(corrs, i + 1, key, CorrectionStep(corrs[i], key, st))

RECURSIVE SumFixes(_, _)
SumFixes(runs, keys) ==
    IF keys = {} THEN 0
    ELSE LET k == CHOOSE x \in keys : TRUE
         IN  runs[k].total_fixes + SumFixes(runs, keys \ {k})

\* correct_properties: None gives (None, 0); a mapping gives the corrected mapping
\* and the number of fixes; anything else has no items() and raises
Corrected(runs) ==
    [raised |-> FALSE,
     value |-> JMap([k \in DOMAIN runs |-> runs[k].current_value]),
     total_fixes |-> SumFixes(runs, DOMAIN runs),
     applied |-> [k \in DOMAIN runs |-> runs[k].applied]]

correct_properties(corrs, properties) ==
    IF IsNull(properties)
    THEN [raised |-> FALSE, value |-> JNull, total_fixes |-> 0, applied |-> EmptyMap]
    ELSE IF ~IsMap(properties)
    THEN [raised |-> TRUE, value |-> properties, total_fixes |-> 0, applied |-> EmptyMap]
    ELSE Corrected([k \in DOMAIN properties[2] |->
                       RunChain(corrs, 1, k, ChainStart(properties[2][k]))])

---------------------------------------------------------------------------
(* Property values and maps the property-chain scenario draws from *)

Alphabet == {" ", "1", "-", ".", "e", "x"}

Words ==
    { <<"n", "u", "l", "l">>, <<" ", "N", "o", "n", "e", " ">>, <<"N", "I", "L">>,
      <<"T", "R", "U", "E">>, <<"f", "a", "l", "s", "e", " ">>, <<" ", "t", "r", "u", "e">>,
      <<"1", "e", "3">>, <<"4", "2", ".", "5">>, <<" ", "4", "2", " ">>,
      <<"-", "1", ".", "5", "e", "-", "2">>, <<"1", "E", "+", "3">>,
      <<"\t", "x", " ", "x", " ">>, <<"n", "u", "l", "l", "x">>, <<"1", "0", ".", "0">>,
      <<"1", "e">>, <<"-", "0", "0", "7">> }

Strings == UNION {[1..n -> Alphabet] : n \in 0..MaxStrLen} \cup Words

SampleValues == { JStr(<<" ", "5">>), JStr(<<"x", " ">>), JStr(<<"x">>), JInt(5), JNull }

PropValues ==
    {JStr(s) : s \in Strings}
        \cup {JNull, JInt(0), JInt(5), JFloat(5, -1), JBool(TRUE), JBool(FALSE), JList}

PropertyMaps ==
    {EmptyMap}
        \cup {("a" :> v) : v \in PropValues}
        \cup {("b" :> w) : w \in SampleValues}
        \cup {("a" :> v) @@ ("b" :> w) : v \in PropValues, w \in SampleValues}

\* what a caller can pass as the properties of a feature
PropertiesInputs == {JMap(f) : f \in PropertyMaps} \cup {JNull, JList}

NoResult == [raised |-> FALSE, value |-> JNull, total_fixes |-> 0, applied |-> EmptyMap]

---------------------------------------------------------------------------
(* The property-chain scenario: construct a PropertyCorrector, register      *)
(* rules, call correct_properties, call it again on what it returned.      *)

\* PropertyCorrector.__init__
InitProps ==
    /\ corrections = DefaultCorrections
    /\ props_in = JNull
    /\ props_res = NoResult
    /\ props_res2 = NoResult
    /\ ppc = "ready"

RegisterCorrection ==
    /\ ppc = "ready"
    /\ Len(corrections) < Len(DefaultCorrections) + MaxCustom
    /\ \E name \in CustomNames : corrections' = register_correction(corrections, name)
    /\ UNCHANGED <<props_in, props_res, props_res2, ppc>>

CorrectProperties ==
    /\ ppc = "ready"
    /\ \E p \in PropertiesInputs :
          \E r \in {correct_properties(corrections, p)} :
              /\ props_in' = p
              /\ props_res' = r
              /\ ppc' = IF r.raised THEN "raised" ELSE "corrected"
    /\ UNCHANGED <<corrections, props_res2>>

CorrectPropertiesAgain ==
    /\ ppc = "corrected"
    /\ props_res2' = correct_properties(corrections, props_res.value)
    /\ ppc' = "recorrected"
    /\ UNCHANGED <<corrections, props_in, props_res>>

---------------------------------------------------------------------------
(* The geometry engine (shapely), seen through the calls the adapter makes. *)
(* What the engine does with a geometry is carried by the geometry itself:  *)
(* its coordinates are <<"coords", behaviour>>.                              *)

\* a type name or other string whose characters no operation inspects
JName(t) == <<"name", t>>
\* a JSON array with the given elements
JArray(elems) == <<"array", elems>>

GeometryTypes ==
    {"Point", "MultiPoint", "LineString", "MultiLineString",
     "Polygon", "MultiPolygon", "GeometryCollection"}

EngineBehaviours ==
    {"parse_throws", "valid", "fix_ok", "fix_fail", "explain_throws", "repair_throws"}

GeomMap(type, behaviour) ==
    JMap(("type" :> JName(type)) @@ ("coordinates" :> <<"coords", behaviour>>))

\* how the engine treats a geometry value; shape() throws on anything that is
\* not a mapping with a type and coordinates
Engine(geometry) ==
    IF IsMap(geometry) /\ "coordinates" \in DOMAIN geometry[2]
    THEN geometry[2]["coordinates"][2]
    ELSE "parse_throws"

\* shape(geometry) raises
shape_throws(geometry) == Engine(geometry) = "parse_throws"
\* geom.is_valid
is_valid(geometry) == Engine(geometry) = "valid"
\* explain_validity(geom) raises
explain_throws(geometry) == Engine(geometry) = "explain_throws"
\* make_valid(geom) raises
make_valid_throws(geometry) == Engine(geometry) = "repair_throws"
\* make_valid(geom).is_valid
repair_is_valid(geometry) == Engine(geometry) = "fix_ok"
\* mapping(make_valid(geom)): a new mapping, valid for the engine
repaired_mapping(geometry) ==
    JMap(("type" :> geometry[2]["type"]) @@ ("coordinates" :> <<"coords", "valid">>)
            @@ ("made_valid" :> JBool(TRUE)))

---------------------------------------------------------------------------
(* GeometryCorrector *)

\* validate_geometry: (is_valid, explanation), an exception becoming (False, str(e))
validate_geometry(geometry) ==
    IF shape_throws(geometry) THEN <<FALSE, <<"exception", "shape">>>>
    ELSE IF is_valid(geometry) THEN <<TRUE, <<"Valid">>>>
    ELSE IF explain_throws(geometry) THEN <<FALSE, <<"exception", "explain_validity">>>>
    ELSE <<FALSE, <<"explain_validity">>>>

\* a try block that returns the repaired geometry without checking that it is valid
try_correct_geometry_unchecked(geometry) ==
    IF shape_throws(geometry) \/ (~is_valid(geometry) /\ explain_throws(geometry))
           \/ (~is_valid(geometry) /\ make_valid_throws(geometry))
    THEN [raised |-> TRUE, geometry |-> geometry, was_corrected |-> FALSE,
          message |-> <<"exception", "engine">>]
    ELSE IF is_valid(geometry)
    THEN [raised |-> FALSE, geometry |-> geometry, was_corrected |-> FALSE,
          message |-> <<"Geometry was already valid">>]
    ELSE [raised |-> FALSE, geometry |-> repaired_mapping(geometry), was_corrected |-> TRUE,
          message |-> <<"Fixed", <<"explain_validity">>>>]

\* the try block of correct_geometry: raised tells that an exception left it
try_correct_geometry(geometry) ==
    IF shape_throws(geometry)
    THEN [raised |-> TRUE, geometry |-> geometry, was_corrected |-> FALSE,
          message |-> <<"exception", "shape">>]
    ELSE IF is_valid(geometry)
    THEN [raised |-> FALSE, geometry |-> geometry, was_corrected |-> FALSE,
          message |-> <<"Geometry was already valid">>]
    ELSE IF explain_throws(geometry)
    THEN [raised |-> TRUE, geometry |-> geometry, was_corrected |-> FALSE,
          message |-> <<"exception", "explain_validity">>]
    ELSE IF make_valid_throws(geometry)
    THEN [raised |-> TRUE, geometry |-> geometry, was_corrected |-> FALSE,
          message |-> <<"exception", "make_valid">>]
    ELSE IF repair_is_valid(geometry)
    THEN [raised |-> FALSE, geometry |-> repaired_mapping(geometry), was_corrected |-> TRUE,
          message |-> <<"Fixed", <<"explain_validity">>>>]
    ELSE [raised |-> FALSE, geometry |-> geometry, was_corrected |-> FALSE,
          message |-> <<"Could not fix", <<"explain_validity">>>>]

\* a correct_geometry without its except clause
Uncaught(geometry, t) == t

\* except Exception: the input geometry, no change, the exception in the message
Caught(geometry, t) ==
    IF t.raised
    THEN [raised |-> FALSE, geometry |-> geometry, was_corrected |-> FALSE,
          message |-> <<"Error processing geometry", t.message>>]
    ELSE t

\* correct_geometry: the try block, and except Exception returning the input geometry
correct_geometry(geometry) == Caught(geometry, try_correct_geometry(geometry))

---------------------------------------------------------------------------
(* GeoJSONCorrector.correct_feature *)

ReservedFeatureKeys == {"type", "properties", "geometry"}

\* a correct_feature that copies only the id beside the three keys it builds
AssembleKeepsIdOnly(feature, feature_index, geometry, g, p) ==
    IF p.raised
    THEN [raised |-> TRUE, cause |-> "AttributeError: items", feature |-> feature,
          details |-> <<>>]
    ELSE [raised |-> FALSE, cause |-> "",
          feature |->
              JMap([k \in (DOMAIN feature[2] \cap {"id"}) \cup ReservedFeatureKeys |->
                      CASE k = "type" -> JName("Feature")
                        [] k = "properties" -> p.value
                        [] k = "geometry" -> IF IsNull(geometry) THEN JNull ELSE g.geometry
                        [] OTHER -> feature[2][k]]),
          details |->
              [feature_index |-> feature_index,
               geometry_corrected |-> IF IsNull(geometry) THEN FALSE ELSE g.was_corrected,
               geometry_message |-> IF IsNull(geometry) THEN <<"">> ELSE g.message,
               properties_fixes |-> p.total_fixes]]

\* the output feature and its detail, from the input mapping f, its geometry, what
\* correct_geometry returned for it (g) and what correct_properties returned (p)
Assemble(feature, feature_index, geometry, g, p) ==
    IF ~IsNull(geometry) /\ g.raised
    THEN [raised |-> TRUE, cause |-> "geometry", feature |-> feature, details |-> <<>>]
    ELSE IF p.raised
    THEN [raised |-> TRUE, cause |-> "AttributeError: items", feature |-> feature,
          details |-> <<>>]
    ELSE [raised |-> FALSE, cause |-> "",
          feature |->
              JMap([k \in DOMAIN feature[2] \cup ReservedFeatureKeys |->
                      CASE k = "type" -> JName("Feature")
                        [] k = "properties" -> p.value
                        [] k = "geometry" -> IF IsNull(geometry) THEN JNull ELSE g.geometry
                        [] OTHER -> feature[2][k]]),
          details |->
              [feature_index |-> feature_index,
               geometry_corrected |-> IF IsNull(geometry) THEN FALSE ELSE g.was_corrected,
               geometry_message |-> IF IsNull(geometry) THEN <<"">> ELSE g.message,
               properties_fixes |-> p.total_fixes]]

\* correct_feature: raised tells that an exception left it (feature.get on a
\* value that is no mapping, properties.items() on a value that is no mapping)
correct_feature(feature, feature_index) ==
    IF ~IsMap(feature)
    THEN [raised |-> TRUE, cause |-> "AttributeError: get", feature |-> feature,
          details |-> <<>>]
    ELSE Assemble(feature, feature_index, Get(feature[2], "geometry"),
                  correct_geometry(Get(feature[2], "geometry")),
                  correct_properties(DefaultCorrections, Get(feature[2], "properties")))

---------------------------------------------------------------------------
(* CorrectionResult and the document corrector *)

\* CorrectionResult()
CorrectionResult ==
    [original_feature_count |-> 0, corrected_feature_count |-> 0,
     geometry_issues_fixed |-> 0, property_issues_fixed |-> 0,
     errors |-> <<>>, warnings |-> <<>>, details |-> <<>>]

\* f"Error processing feature {idx}: {e}"
FeatureError(i, cause) == <<"Error processing feature", i, cause>>

\* the success path of the try block shared by the collection loop and
\* _correct_single_feature: record the detail and roll the counts up
RollUp(res, details) ==
    [res EXCEPT !.details = Append(@, details),
                !.geometry_issues_fixed = @ + (IF details.geometry_corrected THEN 1 ELSE 0),
                !.property_issues_fixed = @ + details.properties_fixes]

\* a loop that skips a failed feature instead of keeping the original
IsolateDropsFailed(st, feature, i, c) ==
    IF c.raised
    THEN [result |-> [st.result EXCEPT !.errors = Append(@, FeatureError(i, c.cause))],
          corrected_features |-> st.corrected_features]
    ELSE [result |-> RollUp(st.result, c.details),
          corrected_features |-> Append(st.corrected_features, c.feature)]

\* a loop that numbers a failed feature from 1 in its error string
IsolateOneBased(st, feature, i, c) ==
    IF c.raised
    THEN [result |-> [st.result EXCEPT !.errors = Append(@, FeatureError(i + 1, c.cause))],
          corrected_features |-> Append(st.corrected_features, feature)]
    ELSE [result |-> RollUp(st.result, c.details),
          corrected_features |-> Append(st.corrected_features, c.feature)]

\* the try/except of the loop of _correct_feature_collection around feature number
\* i (0-based): st holds the result and the output sequence built so far, c is
\* what correct_feature returned
Isolate(st, feature, i, c) ==
    IF c.raised
    THEN [result |-> [st.result EXCEPT !.errors = Append(@, FeatureError(i, c.cause))],
          corrected_features |-> Append(st.corrected_features, feature)]
    ELSE [result |-> RollUp(st.result, c.details),
          corrected_features |-> Append(st.corrected_features, c.feature)]

\* one iteration of the loop of _correct_feature_collection
FeatureIteration(st, feature, i) == Isolate(st, feature, i, correct_feature(feature, i))

\* the end of _correct_feature_collection: the count, the output document with
\* every other top-level key of the input
FinishCollection(doc, res, corrected) ==
    [result |-> [res EXCEPT !.corrected_feature_count = Len(corrected)],
     doc |-> JMap([k \in DOMAIN doc[2] \cup {"type", "features"} |->
                     CASE k = "type" -> JName("FeatureCollection")
                       [] k = "features" -> JArray(corrected)
                       [] OTHER -> doc[2][k]])]

\* _correct_single_feature
IsolateSingle(doc, r1, c) ==
    IF c.raised
    THEN [result |-> [r1 EXCEPT !.errors =
                         Append(@, <<"Error processing feature", c.cause>>)],
          doc |-> doc]
    ELSE [result |-> [RollUp(r1, c.details) EXCEPT !.corrected_feature_count = 1],
          doc |-> c.feature]

correct_single_feature(doc, res) ==
    IsolateSingle(doc, [res EXCEPT !.original_feature_count = 1], correct_feature(doc, 0))

\* _correct_bare_geometry
IsolateGeometry(doc, r1, g) ==
    IF g.raised
    THEN [result |-> [r1 EXCEPT !.errors =
                         Append(@, <<"Error processing geometry", g.message>>)],
          doc |-> doc]
    ELSE [result |->
             [r1 EXCEPT !.geometry_issues_fixed = IF g.was_corrected THEN 1 ELSE @,
                        !.details = Append(@, [feature_index |-> 0,
                                               geometry_corrected |-> g.was_corrected,
                                               geometry_message |-> g.message,
                                               properties_fixes |-> 0]),
                        !.corrected_feature_count = 1],
          doc |-> g.geometry]

correct_bare_geometry(doc, res) ==
    IsolateGeometry(doc, [res EXCEPT !.original_feature_count = 1], correct_geometry(doc))

\* geojson_data.get("type"), as a name; "" when absent
TypeOf(doc) ==
    IF "type" \in DOMAIN doc[2] /\ doc[2]["type"][1] = "name" THEN doc[2]["type"][2] ELSE ""

---------------------------------------------------------------------------
(* Input buffers *)

\* a buffer json.loads rejects, and a bytes buffer that is not UTF-8
NotJson == <<"text">>
Undecodable == <<"bytes">>
\* the text of a JSON value
JsonText(v) == <<"json", v>>

\* json.loads
json_loads(buf) == IF buf[1] = "json" THEN [ok |-> TRUE, value |-> buf[2]]
                   ELSE [ok |-> FALSE, value |-> JNull]
\* json.dumps(value, indent=2)
json_dumps(v) == JsonText(v)

Feat(geometry, properties, extras) ==
    JMap(("type" :> JName("Feature")) @@ ("geometry" :> geometry)
            @@ ("properties" :> properties) @@ extras)

IdKey(n) == "id" :> JInt(n)
BBoxKey == "bbox" :> JList

FeatureSamples ==
    { Feat(GeomMap("Polygon", "valid"), JMap("a" :> JStr(<<" ", "5">>)), IdKey(1) @@ BBoxKey),
      Feat(GeomMap("Polygon", "parse_throws"), JMap("a" :> JStr(<<"x", " ">>)), IdKey(2)),
      Feat(GeomMap("Polygon", "fix_ok"), JMap("a" :> JStr(<<"n", "u", "l", "l">>)), EmptyMap),
      Feat(GeomMap("LineString", "fix_fail"), JNull, IdKey(3)),
      Feat(GeomMap("Polygon", "explain_throws"), JMap(EmptyMap), BBoxKey),
      Feat(GeomMap("Point", "repair_throws"),
           JMap(("a" :> JStr(<<"x">>)) @@ ("b" :> JInt(5))), IdKey(4)),
      Feat(JNull, JList, IdKey(5)),
      Feat(JMap(EmptyMap), JMap("a" :> JStr(<<"T", "R", "U", "E">>)), IdKey(6)),
      JMap(("type" :> JName("Feature")) @@ IdKey(7) @@ ("tippecanoe" :> JList)),
      JInt(7) }

FeatureSeqs == UNION {[1..n -> FeatureSamples] : n \in 0..MaxFeatures}

CollectionDocs ==
    {JMap(("type" :> JName("FeatureCollection")) @@ ("features" :> JArray(fs)) @@ x) :
        fs \in FeatureSeqs, x \in {EmptyMap, ("name" :> JName("layer")) @@ ("crs" :> JList)}}
    \cup {JMap("type" :> JName("FeatureCollection")),
          JMap(("type" :> JName("FeatureCollection")) @@ ("features" :> JNull))}

FeatureDocs == {f \in FeatureSamples : IsMap(f)}

GeometryDocs == {GeomMap(t, b) : t \in GeometryTypes, b \in EngineBehaviours}

OtherDocs == {JMap("type" :> JName("Widget")), JMap(EmptyMap), JInt(5), JList, JNull}

Buffers ==
    {JsonText(d) : d \in CollectionDocs \cup FeatureDocs \cup GeometryDocs \cup OtherDocs}
        \cup {NotJson, Undecodable}

---------------------------------------------------------------------------
(* validate_geojson_file *)

\* Python truthiness of a JSON value, as in "if geometry:"
Truthy(v) ==
    CASE v[1] = "null" -> FALSE
      [] v[1] = "map" -> DOMAIN v[2] # {}
      [] v[1] = "array" -> Len(v[2]) > 0
      [] v[1] = "int" -> v[2] # 0
      [] v[1] = "bool" -> v[2]
      [] v[1] = "str" -> Len(v[2]) > 0
      [] OTHER -> TRUE

GeometryInvalid(i, message) ==
    [type |-> "geometry_invalid", feature_index |-> i, message |-> message]

\* "if not is_valid: issues.append(...)", v being what validate_geometry returned
IssuesOf(v, i) == IF v[1] THEN <<>> ELSE <<GeometryInvalid(i, v[2])>>

\* the body of both "if geometry:" blocks: the issues a geometry adds
GeometryIssues(geometry, i) ==
    IF Truthy(geometry) THEN IssuesOf(validate_geometry(geometry), i) ELSE <<>>

\* the loop over enumerate(features): feature.get raises on a feature that is
\* no mapping, and the exception leaves validate_geojson_file
RECURSIVE ValidateFeatures(_, _, _)
ValidateFeatures(fs, i, found) ==
    IF i > Len(fs) THEN [raised |-> FALSE, issues |-> found]
    ELSE IF ~IsMap(fs[i]) THEN [raised |-> TRUE, issues |-> found]
    ELSE ValidateFeatures(fs, i + 1,
                          found \o GeometryIssues(Get(fs[i][2], "geometry"), i - 1))

\* validate_geojson_file
ValidateDocument(doc) ==
    IF ~IsMap(doc) THEN [raised |-> TRUE, issues |-> <<>>]
    ELSE IF TypeOf(doc) = "FeatureCollection"
    THEN IF "features" \notin DOMAIN doc[2]
         THEN [raised |-> FALSE, issues |-> <<>>]
         ELSE IF doc[2]["features"][1] # "array"
         THEN [raised |-> TRUE, issues |-> <<>>]
         ELSE ValidateFeatures(doc[2]["features"][2], 1, <<>>)
    ELSE IF TypeOf(doc) = "Feature"
    THEN [raised |-> FALSE, issues |-> GeometryIssues(Get(doc[2], "geometry"), 0)]
    ELSE IF TypeOf(doc) \in GeometryTypes
    THEN [raised |-> FALSE, issues |-> IssuesOf(validate_geometry(doc), 0)]
    ELSE [raised |-> FALSE, issues |-> <<>>]

validate_geojson_file(buf) ==
    IF buf = Undecodable THEN [raised |-> TRUE, issues |-> <<>>]
    ELSE IF ~json_loads(buf).ok
    THEN [raised |-> FALSE, issues |-> <<[type |-> "json_error"]>>]
    ELSE ValidateDocument(json_loads(buf).value)

---------------------------------------------------------------------------
(* The entry points as actions *)

InitDoc ==
    /\ buffer \in Buffers
    /\ pc = "idle"
    /\ features = <<>>
    /\ idx = 0
    /\ corrected_features = <<>>
    /\ result = CorrectionResult
    /\ output = JNull
    /\ issues = <<>>

Return(r) ==
    /\ \E done \in {r} :
          /\ result' = done.result
          /\ output' = json_dumps(done.doc)
    /\ pc' = "returned"
    /\ UNCHANGED <<buffer, features, idx, corrected_features, issues>>

Raise ==
    /\ pc' = "raised"
    /\ UNCHANGED <<buffer, features, idx, corrected_features, result, output, issues>>

\* correct_geojson: the dispatch on the document's type. The Feature, bare
\* geometry and unknown-type documents run to their return; a FeatureCollection
\* runs to the head of its loop
CorrectGeojson(doc) ==
    IF ~IsMap(doc) THEN Raise
    ELSE IF TypeOf(doc) = "FeatureCollection"
    THEN IF "features" \in DOMAIN doc[2] /\ doc[2]["features"][1] # "array"
         THEN Raise
         ELSE /\ features' = IF "features" \in DOMAIN doc[2]
                             THEN doc[2]["features"][2] ELSE <<>>
              /\ result' = [CorrectionResult EXCEPT
                               !.original_feature_count = Len(features')]
              /\ corrected_features' = <<>>
              /\ idx' = 0
              /\ pc' = "loop"
              /\ UNCHANGED <<buffer, output, issues>>
    ELSE IF TypeOf(doc) = "Feature"
    THEN Return(correct_single_feature(doc, CorrectionResult))
    ELSE IF TypeOf(doc) \in GeometryTypes
    THEN Return(correct_bare_geometry(doc, CorrectionResult))
    ELSE Return([result |-> [CorrectionResult EXCEPT !.errors =
                                <<<<"Unknown GeoJSON type", TypeOf(doc)>>>>],
                 doc |-> doc])

\* correct_geojson_file
CorrectGeojsonFile ==
    /\ pc = "idle"
    /\ IF buffer = Undecodable THEN Raise
       ELSE IF ~json_loads(buffer).ok
       THEN /\ result' = [CorrectionResult EXCEPT !.errors = <<<<"Invalid JSON">>>>]
            /\ output' = buffer
            /\ pc' = "returned"
            /\ UNCHANGED <<buffer, features, idx, corrected_features, issues>>
       ELSE CorrectGeojson(json_loads(buffer).value)
    /\ UNCHANGED propVars

\* one iteration of "for idx, feature in enumerate(features)"
CorrectFeatureIteration ==
    /\ pc = "loop"
    /\ idx < Len(features)
    /\ \E st \in {FeatureIteration([result |-> result,
                                    corrected_features |-> corrected_features],
                                   features[idx + 1], idx)} :
          /\ result' = st.result
          /\ corrected_features' = st.corrected_features
    /\ idx' = idx + 1
    /\ UNCHANGED <<buffer, pc, features, output, issues>>
    /\ UNCHANGED propVars

\* the loop is over: _correct_feature_collection returns and the document is dumped
ReturnCollection ==
    /\ pc = "loop"
    /\ idx = Len(features)
    /\ Return(FinishCollection(json_loads(buffer).value, result, corrected_features))
    /\ UNCHANGED propVars

ValidateGeojsonFile ==
    /\ pc = "idle"
    /\ \E v \in {validate_geojson_file(buffer)} :
          /\ issues' = v.issues
          /\ pc' = IF v.raised THEN "validate_raised" ELSE "validated"
    /\ UNCHANGED <<buffer, features, idx, corrected_features, result, output>>
    /\ UNCHANGED propVars

---------------------------------------------------------------------------
(* Specifications *)

Init == InitDoc /\ InitProps

Next ==
    \/ CorrectGeojsonFile
    \/ CorrectFeatureIteration
    \/ ReturnCollection
    \/ ValidateGeojsonFile

\* the file-level entry points on one input buffer
Spec == Init /\ [][Next]_vars

InitChain ==
    /\ InitProps
    /\ buffer = NotJson
    /\ pc = "idle"
    /\ features = <<>>
    /\ idx = 0
    /\ corrected_features = <<>>
    /\ result = CorrectionResult
    /\ output = JNull
    /\ issues = <<>>

NextChain ==
    \/ RegisterCorrection /\ UNCHANGED docVars
    \/ CorrectProperties /\ UNCHANGED docVars
    \/ CorrectPropertiesAgain /\ UNCHANGED docVars

\* a PropertyCorrector: registrations, then correct_properties and a second run
SpecChain == InitChain /\ [][NextChain]_vars

---------------------------------------------------------------------------
(* Reading the input and the output of a run *)

ParsedInput == buffer[1] = "json"
InputDoc == buffer[2]
ObjectInput == ParsedInput /\ IsMap(InputDoc)
\* a FeatureCollection whose features value is a sequence (or is absent, read as [])
CollectionInput ==
    /\ ObjectInput
    /\ TypeOf(InputDoc) = "FeatureCollection"
    /\ ("features" \in DOMAIN InputDoc[2] => InputDoc[2]["features"][1] = "array")
FeatureInput == ObjectInput /\ TypeOf(InputDoc) = "Feature"
GeometryInput == ObjectInput /\ TypeOf(InputDoc) \in GeometryTypes
InputFeatures ==
    IF "features" \in DOMAIN InputDoc[2] THEN InputDoc[2]["features"][2] ELSE <<>>
OutputDoc == output[2]
OutputFeatures == OutputDoc[2]["features"][2]

\* correcting this feature raises: it is no mapping, or its properties are
\* neither null nor a mapping
Raises(feature) ==
    \/ ~IsMap(feature)
    \/ ~IsNull(Get(feature[2], "properties")) /\ ~IsMap(Get(feature[2], "properties"))

\* the error strings of the collection loop that name feature i
ErrorsFor(i) ==
    {k \in 1..Len(result.errors) :
        /\ Len(result.errors[k]) = 3
        /\ result.errors[k][1] = "Error processing feature"
        /\ result.errors[k][2] = i}
\* the detail records stamped with feature i
DetailsFor(i) == {k \in 1..Len(result.details) : result.details[k].feature_index = i}

---------------------------------------------------------------------------
(* C1: when correct_geojson returns for a FeatureCollection of N features,   *)
(* the output has N features, both counts are N, and the output feature at  *)
(* each position is the corrected form of the input feature at that         *)
(* position, or that input feature itself when correcting it raised.        *)

C1_CountAndOrder ==
    (pc = "returned" /\ CollectionInput) =>
        /\ Len(OutputFeatures) = Len(InputFeatures)
        /\ result.original_feature_count = Len(InputFeatures)
        /\ result.corrected_feature_count = Len(InputFeatures)
        /\ \A i \in 1..Len(InputFeatures) :
              IF Raises(InputFeatures[i])
              THEN OutputFeatures[i] = InputFeatures[i]
              ELSE OutputFeatures[i] = correct_feature(InputFeatures[i], i - 1).feature

\* a returned collection of three features, one of which failed between two
\* that were corrected
C1_Witness ==
    /\ pc = "returned" /\ CollectionInput
    /\ Len(InputFeatures) = 3
    /\ Raises(InputFeatures[2])
    /\ ~Raises(InputFeatures[1]) /\ ~Raises(InputFeatures[3])
    /\ OutputFeatures[1] # InputFeatures[1]
    /\ result.corrected_feature_count = 3

---------------------------------------------------------------------------
(* C2: neither correct_geojson_file nor validate_geojson_file lets an       *)
(* exception out, whatever the input buffer holds.                          *)

C2_NeverRaises == pc \notin {"raised", "validate_raised"}

---------------------------------------------------------------------------
(* C3: a FeatureCollection in which the geometry of feature i makes the     *)
(* engine throw while parsing.                                               *)

\* feature number i (1-based) has a geometry on which shape() throws
ParseThrowsAt(i) ==
    /\ IsMap(InputFeatures[i])
    /\ ~IsNull(Get(InputFeatures[i][2], "geometry"))
    /\ shape_throws(Get(InputFeatures[i][2], "geometry"))

\* what a full correction leaves as the geometry: the repaired mapping when the
\* engine can repair it, the input geometry otherwise
ExpectedGeometry(geometry) ==
    IF ~IsNull(geometry) /\ Engine(geometry) = "fix_ok"
    THEN repaired_mapping(geometry) ELSE geometry

\* output feature j carries the repaired geometry and the normalized properties
\* of input feature j, and one detail record reports it
FullyCorrected(j) ==
    /\ IsMap(OutputFeatures[j])
    /\ Get(OutputFeatures[j][2], "geometry")
           = ExpectedGeometry(Get(InputFeatures[j][2], "geometry"))
    /\ Get(OutputFeatures[j][2], "properties")
           = correct_properties(DefaultCorrections,
                                Get(InputFeatures[j][2], "properties")).value
    /\ Cardinality(DetailsFor(j - 1)) = 1

\* C3 as claimed: the count is N, an error entry names index i, and every other
\* feature (that can be corrected at all) is fully corrected
C3_ErrorEntryForThrowingGeometry ==
    (pc = "returned" /\ CollectionInput) =>
        \A i \in 1..Len(InputFeatures) :
            ParseThrowsAt(i) =>
                /\ result.corrected_feature_count = Len(InputFeatures)
                /\ ErrorsFor(i - 1) # {}
                /\ \A j \in 1..Len(InputFeatures) \ {i} :
                      ~Raises(InputFeatures[j]) => FullyCorrected(j)

\* C3 as amended: the count is N; the adapter absorbs the exception, so feature
\* i (when its properties are null or a mapping) gets no error entry but one
\* detail record with geometry_corrected false and an "Error processing
\* geometry" message, keeps its geometry and has its properties normalized; every
\* other feature whose correction does not raise is fully corrected
C3_ThrowingGeometryIsADetail ==
    (pc = "returned" /\ CollectionInput) =>
        \A i \in 1..Len(InputFeatures) :
            ParseThrowsAt(i) =>
                /\ result.corrected_feature_count = Len(InputFeatures)
                /\ ~Raises(InputFeatures[i]) =>
                      /\ ErrorsFor(i - 1) = {}
                      /\ FullyCorrected(i)
                      /\ \A k \in DetailsFor(i - 1) :
                            /\ ~result.details[k].geometry_corrected
                            /\ result.details[k].geometry_message[1]
                                   = "Error processing geometry"
                      /\ Get(OutputFeatures[i][2], "geometry")
                             = Get(InputFeatures[i][2], "geometry")
                /\ \A j \in 1..Len(InputFeatures) \ {i} :
                      ~Raises(InputFeatures[j]) => FullyCorrected(j)

\* the scenario of the claim: three features, the middle one with a geometry that
\* throws while parsing, the outer two changed by their correction
C3_Witness ==
    /\ pc = "returned" /\ CollectionInput
    /\ Len(InputFeatures) = 3
    /\ ParseThrowsAt(2)
    /\ \A j \in 1..3 : ~Raises(InputFeatures[j])
    /\ ~ParseThrowsAt(1) /\ ~ParseThrowsAt(3)
    /\ OutputFeatures[1] # InputFeatures[1]
    /\ OutputFeatures[3] # InputFeatures[3]
    /\ result.errors = <<>>
    /\ Len(result.details) = 3

---------------------------------------------------------------------------
(* C4: for a Feature or a bare geometry document both counts end as 1,      *)
(* whether or not correcting it raised.                                      *)

C4_SingleCounts ==
    (pc = "returned" /\ (FeatureInput \/ GeometryInput)) =>
        /\ result.original_feature_count = 1
        /\ result.corrected_feature_count = 1

---------------------------------------------------------------------------
(* C5: structural preservation. A corrected feature holds every key of the   *)
(* input feature other than type, properties and geometry with the same     *)
(* value, and no key beyond the input's and those three; the output          *)
(* collection holds every input top-level key other than type and features  *)
(* with the same value, and no key beyond the input's and those two.        *)

\* mapping out keeps the keys of mapping in outside reserved, and adds none
Preserves(in, out, reserved) ==
    /\ \A k \in DOMAIN in \ reserved : k \in DOMAIN out /\ out[k] = in[k]
    /\ DOMAIN out \subseteq DOMAIN in \cup reserved

C5_KeysPreserved ==
    /\ (pc = "returned" /\ CollectionInput) =>
          /\ Preserves(InputDoc[2], OutputDoc[2], {"type", "features"})
          /\ \A i \in 1..Len(InputFeatures) :
                ~Raises(InputFeatures[i]) =>
                    /\ IsMap(OutputFeatures[i])
                    /\ Preserves(InputFeatures[i][2], OutputFeatures[i][2],
                                 ReservedFeatureKeys)
    /\ (pc = "returned" /\ FeatureInput /\ ~Raises(InputDoc)) =>
          Preserves(InputDoc[2], OutputDoc[2], ReservedFeatureKeys)

\* a returned collection with name and crs whose first feature carries id and
\* bbox and was changed by its correction
C5_Witness ==
    /\ pc = "returned" /\ CollectionInput
    /\ {"name", "crs"} \subseteq DOMAIN InputDoc[2]
    /\ Len(InputFeatures) >= 1
    /\ ~Raises(InputFeatures[1])
    /\ {"id", "bbox"} \subseteq DOMAIN InputFeatures[1][2]
    /\ OutputFeatures[1] # InputFeatures[1]

---------------------------------------------------------------------------
(* C6: with the default rule chain, running correct_properties on what it   *)
(* returned gives the same map back with zero fixes.                        *)

C6_Idempotent ==
    (ppc = "recorrected" /\ corrections = DefaultCorrections) =>
        /\ props_res2.value = props_res.value
        /\ props_res2.total_fixes = 0

\* a second run after a first run that fixed two values
C6_Witness ==
    /\ ppc = "recorrected"
    /\ corrections = DefaultCorrections
    /\ props_res.total_fixes = 2
    /\ props_res.value # props_in

---------------------------------------------------------------------------
(* C7: validate_geojson_file returns one geometry_invalid issue, with the   *)
(* feature's index and in feature order, for exactly the features whose     *)
(* geometry is not null and is reported invalid by validate_geometry.       *)

\* the indices (0-based) of the features from position i on whose geometry is
\* not null and not valid
RECURSIVE InvalidIndices(_, _)
InvalidIndices(fs, i) ==
    IF i > Len(fs) THEN <<>>
    ELSE (IF /\ ~IsNull(Get(fs[i][2], "geometry"))
             /\ ~validate_geometry(Get(fs[i][2], "geometry"))[1]
          THEN <<i - 1>> ELSE <<>>) \o InvalidIndices(fs, i + 1)

IssueIndices == [k \in 1..Len(issues) |-> issues[k].feature_index]

C7_IssuePerNonNullInvalidGeometry ==
    /\ (pc = "validated" /\ CollectionInput) =>
          /\ \A k \in 1..Len(issues) : issues[k].type = "geometry_invalid"
          /\ IssueIndices = InvalidIndices(InputFeatures, 1)
    /\ (pc = "validated" /\ FeatureInput) =>
          IssueIndices = InvalidIndices(<<InputDoc>>, 1)
    /\ (pc = "validated" /\ GeometryInput) =>
          IssueIndices = IF validate_geometry(InputDoc)[1] THEN <<>> ELSE <<0>>

---------------------------------------------------------------------------
(* C8: correct_geometry never raises; it reports a change exactly when the  *)
(* geometry parsed, was invalid and its repair is valid, and otherwise      *)
(* returns the input geometry itself with no change reported.               *)

\* the geometry parsed, was invalid, and make_valid gave a valid geometry
RepairSucceeds(geometry) ==
    /\ ~shape_throws(geometry)
    /\ ~is_valid(geometry)
    /\ ~explain_throws(geometry)
    /\ ~make_valid_throws(geometry)
    /\ repair_is_valid(geometry)

C8_GeometryNeverRaises ==
    /\ GeometryInput => pc # "raised"
    /\ (pc = "returned" /\ GeometryInput) =>
          /\ result.errors = <<>>
          /\ Len(result.details) = 1
          /\ result.details[1].geometry_corrected <=> RepairSucceeds(InputDoc)
          /\ ~result.details[1].geometry_corrected => OutputDoc = InputDoc
          /\ result.details[1].geometry_corrected =>
                OutputDoc = repaired_mapping(InputDoc) /\ is_valid(OutputDoc)
    /\ (pc = "returned" /\ CollectionInput) =>
          \A i \in 1..Len(InputFeatures) :
              (~Raises(InputFeatures[i])
                  /\ ~IsNull(Get(InputFeatures[i][2], "geometry"))) =>
                  \A k \in DetailsFor(i - 1) :
                      /\ result.details[k].geometry_corrected
                             <=> RepairSucceeds(Get(InputFeatures[i][2], "geometry"))
                      /\ ~result.details[k].geometry_corrected =>
                             Get(OutputFeatures[i][2], "geometry")
                                 = Get(InputFeatures[i][2], "geometry")

\* a bare geometry on which the repair throws came back unchanged
C8_Witness ==
    /\ pc = "returned" /\ GeometryInput
    /\ Engine(InputDoc) = "repair_throws"
    /\ OutputDoc = InputDoc
    /\ ~result.details[1].geometry_corrected

---------------------------------------------------------------------------
(* C9: correct_properties is a pipeline. For every key the rules are called *)
(* in registration order, each on the output of the one before it; the fix  *)
(* count is the number of calls that reported a correction; a rule          *)
(* registered after construction comes after the four built-in rules.       *)

RECURSIVE CountCorrected(_, _)
CountCorrected(applied, keys) ==
    IF keys = {} THEN 0
    ELSE LET key == CHOOSE x \in keys : TRUE
         IN  Cardinality({k \in 1..Len(applied[key]) : applied[key][k].was_corrected})
                 + CountCorrected(applied, keys \ {key})

C9_Pipeline ==
    /\ Len(corrections) >= Len(DefaultCorrections)
    /\ SubSeq(corrections, 1, Len(DefaultCorrections)) = DefaultCorrections
    /\ (ppc \in {"corrected", "recorrected"} /\ IsMap(props_in)) =>
          /\ DOMAIN props_res.applied = DOMAIN props_in[2]
          /\ \A key \in DOMAIN props_in[2] :
                /\ Len(props_res.applied[key]) = Len(corrections)
                /\ \A k \in 1..Len(corrections) :
                      /\ props_res.applied[key][k].name = corrections[k]
                      /\ props_res.applied[key][k].input =
                            IF k = 1 THEN props_in[2][key]
                            ELSE props_res.applied[key][k - 1].output
                /\ props_res.value[2][key]
                       = props_res.applied[key][Len(corrections)].output
          /\ props_res.total_fixes = CountCorrected(props_res.applied, DOMAIN props_in[2])

\* a rule registered after construction fired on a value a built-in rule had
\* already rewritten, next to a second key fixed as well
C9_Witness ==
    /\ ppc = "corrected"
    /\ Len(corrections) = Len(DefaultCorrections) + 1
    /\ IsMap(props_in)
    /\ DOMAIN props_in[2] = {"a", "b"}
    /\ props_res.applied["a"][Len(corrections)].was_corrected
    /\ \E k \in 1..Len(DefaultCorrections) : props_res.applied["a"][k].was_corrected
    /\ props_res.total_fixes >= 3

---------------------------------------------------------------------------
(* C10: in the loop of _correct_feature_collection and after it, every      *)
(* processed feature is reported exactly once, by one detail record with    *)
(* its index or by one "Error processing feature <index>" string; details   *)
(* plus errors count the processed features and detail indices increase.    *)

C10_OneReportPerFeature ==
    (pc \in {"loop", "returned"} /\ CollectionInput) =>
        /\ \A i \in 0..(idx - 1) :
              /\ Cardinality(DetailsFor(i)) + Cardinality(ErrorsFor(i)) = 1
              /\ Raises(features[i + 1]) <=> ErrorsFor(i) # {}
        /\ Len(result.details) + Len(result.errors) = idx
        /\ \A k \in 1..(Len(result.details) - 1) :
              result.details[k].feature_index < result.details[k + 1].feature_index
        /\ pc = "returned" => idx = Len(InputFeatures)

\* inside the loop: two of three features processed, one failed and one succeeded
C10_Witness ==
    /\ pc = "loop" /\ CollectionInput
    /\ Len(features) = 3
    /\ idx = 2
    /\ Len(result.errors) = 1
    /\ Len(result.details) = 1

---------------------------------------------------------------------------
(* C11: with only the four default rules registered, at most one rule      *)
(* reports a correction for any one property value; so the fix count that  *)
(* correct_properties returns for a map is at most the number of its keys, *)
(* and equals the number of keys whose output value differs from the input *)
(* value.                                                                  *)

\* the calls for one key that reported a correction
Firings(calls) == {k \in 1..Len(calls) : calls[k].was_corrected}

\* the keys whose value correct_properties changed
ChangedKeys(before, after) == {key \in DOMAIN before : after[key] # before[key]}

C11_AtMostOneDefaultRuleFires ==
    (/\ ppc \in {"corrected", "recorrected"}
     /\ corrections = DefaultCorrections
     /\ IsMap(props_in)) =>
        /\ \A key \in DOMAIN props_in[2] :
              Cardinality(Firings(props_res.applied[key])) <= 1
        /\ props_res.total_fixes <= Cardinality(DOMAIN props_in[2])
        /\ props_res.total_fixes
               = Cardinality(ChangedKeys(props_in[2], props_res.value[2]))

\* only the default rules ran: a padded number was converted by the numeric rule
\* (and then had nothing left to trim), next to a padded word that was trimmed
C11_Witness ==
    /\ ppc = "corrected"
    /\ corrections = DefaultCorrections
    /\ IsMap(props_in)
    /\ DOMAIN props_in[2] = {"a", "b"}
    /\ props_in[2]["a"] = JStr(<<" ", "1">>)
    /\ props_res.applied["a"][1].was_corrected
    /\ props_res.value[2]["a"] = JInt(1)
    /\ props_in[2]["b"] = JStr(<<"x", " ">>)
    /\ props_res.applied["b"][4].was_corrected
    /\ props_res.total_fixes = 2

=============================================================================
